---------------------------- MODULE Spec2Model ----------------------------
(***************************************************************************)
(* cqlstore: a Cassandra backed session store for gorilla/sessions.        *)
(*                                                                         *)
(* The model follows src/cqlstore.go: the constructor New, CQLStore.Get,   *)
(* New and Save, the three query objects the store shares between          *)
(* requests, the Options objects the store and its sessions point to, and  *)
(* the securecookie encoding of identifiers and value mappings.            *)
(***************************************************************************)
EXTENDS Integers, Sequences, FiniteSets, TLC

VARIABLES
    store,      \* the CQLStore struct: Options (a pointer) and Codecs
    heap,       \* the sessions.Options objects, by address: their MaxAge
    db,         \* the sessions table: id -> [data, ttl]
    loadQ,      \* values bound to the shared SELECT query
    saveQ,      \* values bound to the shared INSERT query
    deleteQ,    \* values bound to the shared DELETE query
    nextID,     \* the clock gocql.UUIDFromTime reads
    pc,         \* where each request's handler stands
    sess,       \* the session each request's handler holds
    w,          \* the cookie set on each request's response
    jar,        \* the cookie each client holds
    ret,        \* what the last call returned and which statement it ran
    tables,     \* the tables that exist in the keyspace
    newRet,     \* what the last call of the constructor returned
    registry    \* the error kept with the session in each request's registry

vars == <<store, heap, db, loadQ, saveQ, deleteQ, nextID, pc, sess, w, jar,
          ret, tables, newRet, registry>>

---------------------------------------------------------------------------
(* Bounds *)

NumReqs == 2
MaxIDs == 2
MaxTableLen == 2

Reqs == 1..NumReqs
IDs == 1..MaxIDs

---------------------------------------------------------------------------
(* Values of the program *)

NoID == 0                       \* s.ID == ""
StoreAddr == 0                  \* the Options object the constructor allocates
NilAddr == -1                   \* the nil Options pointer of &CQLStore{}
DefaultMaxAge == 86400 * 30
MaxAges == {-1, 0, 900, DefaultMaxAge}
Addrs == {StoreAddr} \cup Reqs  \* a request's caller may allocate one Options

Names == {"A", "B"}             \* session names
Unencodable == 0                \* a value gob cannot serialize
ValKeys == <<"a", "b">>
EmptyValues == [k \in {} |-> 0]
SampleValues ==
    { EmptyValues,
      [k \in {"a"} |-> 1],
      [k \in {"a", "b"} |-> IF k = "a" THEN 1 ELSE 2],
      [k \in {"b"} |-> Unencodable] }

Range(f) == {f[i] : i \in DOMAIN f}

---------------------------------------------------------------------------
(* securecookie *)

NoCodec == [hash |-> "", block |-> ""]

\* securecookie.CodecsFromPairs: one codec per (hash key, block key) pair;
\* a trailing hash key has no block key.
RECURSIVE CodecsFromPairs(_)
CodecsFromPairs(keypairs) ==
    IF Len(keypairs) = 0 THEN <<>>
    ELSE IF Len(keypairs) = 1
         THEN << [hash |-> keypairs[1], block |-> ""] >>
         ELSE << [hash |-> keypairs[1], block |-> keypairs[2]] >>
              \o CodecsFromPairs(SubSeq(keypairs, 3, Len(keypairs)))

KeyPairArgs == { <<>>, <<"K1">>, <<"K2", "", "K1">> }

\* The serialized form of a value mapping: its entries in key order.
RECURSIVE SerializeFrom(_, _)
SerializeFrom(v, i) ==
    IF i > Len(ValKeys) THEN <<>>
    ELSE (IF ValKeys[i] \in DOMAIN v
          THEN << <<ValKeys[i], v[ValKeys[i]]>> >> ELSE <<>>)
         \o SerializeFrom(v, i + 1)

Serialize(v) ==
    [ok |-> \A k \in DOMAIN v : v[k] # Unencodable, body |-> SerializeFrom(v, 1)]

\* A decoder that keeps only the first entry of the mapping.
DeserializeFirstEntry(body) ==
    IF Len(body) = 0 THEN EmptyValues ELSE (body[1][1] :> body[1][2])

RECURSIVE Deserialize(_)
Deserialize(body) ==
    IF Len(body) = 0 THEN EmptyValues
    ELSE (body[1][1] :> body[1][2]) @@ Deserialize(Tail(body))

\* The serialized form of a session identifier.
SerializeID(id) == [ok |-> TRUE, body |-> <<id>>]
DeserializeID(body) == body[1]

\* securecookie.EncodeMulti: the first codec that encodes wins; the MAC
\* covers the name and the serialized value.
EncodeMulti(name, ser, codecs) ==
    IF Len(codecs) = 0 \/ ~ser.ok
    THEN [ok |-> FALSE, tok |-> [ns |-> "", codec |-> NoCodec, body |-> <<>>]]
    ELSE [ok |-> TRUE,
          tok |-> [ns |-> name, codec |-> codecs[1], body |-> ser.body]]

\* A codec that checks the name but not the MAC.
DecodeWithoutMAC(codec, name, tok) == tok.ns = name

\* A codec whose MAC does not cover the name.
DecodeAnyName(codec, name, tok) == tok.codec = codec

\* Codec.Decode: the MAC verifies under this codec's keys and this name.
Decode(codec, name, tok) == tok.codec = codec /\ tok.ns = name

\* A decoder that tries the first codec only.
DecodeFirstOnly(name, tok, codecs) ==
    IF Len(codecs) > 0 /\ Decode(codecs[1], name, tok)
    THEN [ok |-> TRUE, body |-> tok.body]
    ELSE [ok |-> FALSE, body |-> <<>>]

\* securecookie.DecodeMulti: the codecs are tried in order.
RECURSIVE DecodeMulti(_, _, _)
DecodeMulti(name, tok, codecs) ==
    IF Len(codecs) = 0 THEN [ok |-> FALSE, body |-> <<>>]
    ELSE IF Decode(codecs[1], name, tok) THEN [ok |-> TRUE, body |-> tok.body]
    ELSE DecodeMulti(name, tok, Tail(codecs))

EmptyValue == [ns |-> "", codec |-> NoCodec, body |-> <<>>]
Bogus == [ns |-> "bogus", codec |-> NoCodec, body |-> <<>>]

---------------------------------------------------------------------------
(* net/http and gorilla/sessions *)

NoCookie == [name |-> "", value |-> EmptyValue, MaxAge |-> 0]

\* sessions.NewCookie: name, value and the attributes of the options.
NewCookie(name, value, maxAge) ==
    [name |-> name, value |-> value, MaxAge |-> maxAge]

\* A lookup that returns the request's cookie whatever its name.
CookieOfAnyName(c, name) ==
    IF c # NoCookie THEN [ok |-> TRUE, c |-> c]
    ELSE [ok |-> FALSE, c |-> NoCookie]

\* r.Cookie(name): the request's cookie of that name, if it carries one.
Cookie(c, name) ==
    IF c.name = name /\ c # NoCookie THEN [ok |-> TRUE, c |-> c]
    ELSE [ok |-> FALSE, c |-> NoCookie]

\* sessions.NewSession, then the two assignments of CQLStore.New.
NewSession(name, opts) ==
    [ID |-> NoID, name |-> name, Values |-> EmptyValues,
     Options |-> opts, IsNew |-> TRUE]

\* s.Options = &(*st.Options): the address of the object st.Options points to.
OptionsFor(r, st) == st.Options

NoSession == [ID |-> NoID, name |-> "", Values |-> EmptyValues,
              Options |-> NilAddr, IsNew |-> FALSE]

\* No session is kept for the request.
NoEntry == "none"

NoRet == [op |-> "none", r |-> 0, cookie |-> NoCookie, err |-> "nil",
          stmt |-> "none", stmtOK |-> TRUE, key |-> NoID]

---------------------------------------------------------------------------
(* gocql: the statements the three prepared queries run *)

\* A fetch that reports a row even when the statement failed.
ScanIgnoringError(table, key, ok) ==
    IF key \in DOMAIN table
    THEN [ok |-> TRUE, data |-> table[key].data]
    ELSE [ok |-> FALSE, data |-> EmptyValue]

\* loadQ.Bind(id).Scan(&encData): not-found and storage failures are errors.
Scan(table, key, ok) ==
    IF ok /\ key \in DOMAIN table
    THEN [ok |-> TRUE, data |-> table[key].data]
    ELSE [ok |-> FALSE, data |-> EmptyValue]

\* An upsert that keeps the entries of the row it finds.
InsertMerging(table, q, ok) ==
    IF ok /\ q.ttl >= 0
    THEN LET old  == IF q.id \in DOMAIN table
                     THEN Deserialize(table[q.id].data.body)
                     ELSE EmptyValues
             both == Deserialize(q.data.body) @@ old
         IN  [ok |-> TRUE,
              table |-> (q.id :> [data |-> [q.data EXCEPT
                                              !.body = Serialize(both).body],
                                  ttl |-> q.ttl]) @@ table]
    ELSE [ok |-> FALSE, table |-> table]

\* An upsert that writes the row even when the statement is reported failed.
InsertDespiteFailure(table, q, ok) ==
    IF q.ttl >= 0
    THEN [ok |-> ok,
          table |-> (q.id :> [data |-> q.data, ttl |-> q.ttl]) @@ table]
    ELSE [ok |-> FALSE, table |-> table]

\* saveQ.Bind(id, data, ttl).Exec(): INSERT ... USING TTL ttl is an upsert;
\* a TTL of 0 writes a row that never expires, a negative TTL is rejected.
Insert(table, q, ok) ==
    IF ok /\ q.ttl >= 0
    THEN [ok |-> TRUE,
          table |-> (q.id :> [data |-> q.data, ttl |-> q.ttl]) @@ table]
    ELSE [ok |-> FALSE, table |-> table]

\* A delete statement that removes nothing.
DeleteNothing(table, key, ok) == [ok |-> ok, table |-> table]

\* deleteQ.Bind(id).Exec(): deleting an absent row is no error.
Delete(table, key, ok) ==
    IF ok
    THEN [ok |-> TRUE, table |-> [i \in DOMAIN table \ {key} |-> table[i]]]
    ELSE [ok |-> FALSE, table |-> table]

\* gocql.UUIDFromTime(time.Now()).String()
UUIDFromTime(now) == now

NoBind == [id |-> NoID, data |-> EmptyValue, ttl |-> 0]

---------------------------------------------------------------------------
(* CQLStore.New *)

\* Up to the decoding of the cookie: done when New returns before the fetch.
NewLoad(name, c, opts, codecs) ==
    LET s   == NewSession(name, opts)
        ck  == Cookie(c, name)
        dec == DecodeMulti(name, ck.c.value, codecs)
    IN  IF ~ck.ok THEN [done |-> TRUE, s |-> s, err |-> "nil"]
        ELSE IF ~dec.ok THEN [done |-> TRUE, s |-> s, err |-> "loadError"]
        ELSE [done |-> FALSE, s |-> [s EXCEPT !.ID = DeserializeID(dec.body)],
              err |-> "nil"]

\* From the result of the fetch to the return.
NewFinish(s, scan, codecs) ==
    LET dec == DecodeMulti(s.name, scan.data, codecs)
    IN  IF ~scan.ok THEN [s |-> s, err |-> "loadError"]
        ELSE IF ~dec.ok THEN [s |-> s, err |-> "loadError"]
        ELSE [s |-> [s EXCEPT !.Values = Deserialize(dec.body),
                              !.IsNew = FALSE],
              err |-> "nil"]

\* The cookies a request may carry: none, a made-up value, or a value some
\* client holds, under either session name.
RequestCookies ==
    {NoCookie} \cup
    { NewCookie(n, v, 0) : n \in Names,
                           v \in {Bogus} \cup {jar[q].value : q \in Reqs} }

\* A New that sends the cookie of the request back on the response.
NewCallSettingCookie(r, name, c, ok) ==
    /\ LET opts == OptionsFor(r, store)
           pre  == NewLoad(name, c, opts, store.Codecs)
           scan == Scan(db, pre.s.ID, ok)
           fin  == NewFinish(pre.s, scan, store.Codecs)
       IN  /\ heap' = [heap EXCEPT ![opts] = heap[store.Options]]
           /\ IF pre.done
              THEN /\ sess' = [sess EXCEPT ![r] = pre.s]
                   /\ ret' = [op |-> "New", r |-> r, cookie |-> c,
                              err |-> pre.err, stmt |-> "none",
                              stmtOK |-> TRUE, key |-> NoID]
              ELSE /\ sess' = [sess EXCEPT ![r] = fin.s]
                   /\ ret' = [op |-> "New", r |-> r, cookie |-> c,
                              err |-> fin.err, stmt |-> "select",
                              stmtOK |-> ok, key |-> pre.s.ID]
    /\ pc' = [pc EXCEPT ![r] = "have"]
    /\ w' = [w EXCEPT ![r] = c]
    /\ UNCHANGED <<store, db, loadQ, saveQ, deleteQ, nextID, jar, tables,
                   newRet>>

\* The body of CQLStore.New, for request r.
NewCall(r, name, c, ok) ==
    /\ LET opts == OptionsFor(r, store)
           pre  == NewLoad(name, c, opts, store.Codecs)
           scan == Scan(db, pre.s.ID, ok)
           fin  == NewFinish(pre.s, scan, store.Codecs)
       IN  /\ heap' = [heap EXCEPT ![opts] = heap[store.Options]]
           /\ IF pre.done
              THEN /\ sess' = [sess EXCEPT ![r] = pre.s]
                   /\ ret' = [op |-> "New", r |-> r, cookie |-> c,
                              err |-> pre.err, stmt |-> "none",
                              stmtOK |-> TRUE, key |-> NoID]
              ELSE /\ sess' = [sess EXCEPT ![r] = fin.s]
                   /\ ret' = [op |-> "New", r |-> r, cookie |-> c,
                              err |-> fin.err, stmt |-> "select",
                              stmtOK |-> ok, key |-> pre.s.ID]
    /\ pc' = [pc EXCEPT ![r] = "have"]
    /\ UNCHANGED <<store, db, loadQ, saveQ, deleteQ, nextID, w, jar, tables,
                   newRet>>

\* store.New(r, name), called by the handler itself: the registry of the
\* request is not involved.
CQLStoreNew(r, name, c, ok) ==
    /\ pc[r] = "idle"
    /\ NewCall(r, name, c, ok)
    /\ UNCHANGED registry

\* A registry that never finds an entry.
RegistryMiss(entry) == [ok |-> FALSE, e |-> entry]

\* registry.sessions[name]: the session kept for the request, with the
\* error New returned for it.
RegistryLookup(entry) == [ok |-> entry # NoEntry, e |-> entry]

\* store.Get(r, name): sessions.GetRegistry(r).Get(st, name) returns the
\* session and error it keeps for the name, and otherwise calls st.New and
\* keeps what New returned.
Get(r, name, c, ok) ==
    /\ pc[r] \in {"idle", "have"}
    /\ pc[r] = "have" => sess[r].name = name
    /\ LET hit == RegistryLookup(registry[r])
       IN  IF hit.ok
           THEN /\ ret' = [op |-> "Get", r |-> r, cookie |-> NoCookie,
                           err |-> hit.e, stmt |-> "none", stmtOK |-> TRUE,
                           key |-> NoID]
                /\ UNCHANGED <<store, heap, db, loadQ, saveQ, deleteQ,
                               nextID, pc, sess, w, jar, tables, newRet,
                               registry>>
           ELSE /\ NewCall(r, name, c, ok)
                /\ registry' = [registry EXCEPT ![r] = ret'.err]

---------------------------------------------------------------------------
(* CQLStore.Save *)

\* A Save that mints an identifier whether or not the session has one.
SavePrepareFreshID(s, now, ttl, codecs) ==
    LET id  == UUIDFromTime(now)
        enc == EncodeMulti(s.name, Serialize(s.Values), codecs)
    IN  [s |-> [s EXCEPT !.ID = id], ok |-> enc.ok,
         q |-> [id |-> id, data |-> enc.tok, ttl |-> ttl]]

\* Lines 124-135: the identifier, the encoded values and the bound values.
SavePrepare(s, now, ttl, codecs) ==
    LET id  == IF s.ID = NoID THEN UUIDFromTime(now) ELSE s.ID
        enc == EncodeMulti(s.name, Serialize(s.Values), codecs)
    IN  [s |-> [s EXCEPT !.ID = id], ok |-> enc.ok,
         q |-> [id |-> id, data |-> enc.tok, ttl |-> ttl]]

\* The time-to-live Save binds to the INSERT.
SaveTTL(s, st, h) == h[st.Options]

CQLStoreSave(r, ok) ==
    /\ pc[r] = "have"
    /\ LET s   == sess[r]
           age == heap[s.Options]
       IN  IF age < 0
           THEN LET del == Delete(db, s.ID, ok)
                IN  /\ db' = del.table
                    /\ w' = IF del.ok
                            THEN [w EXCEPT ![r] =
                                    NewCookie(s.name, EmptyValue, age)]
                            ELSE w
                    /\ ret' = [op |-> "Save", r |-> r, cookie |-> NoCookie,
                               err |-> IF del.ok THEN "nil" ELSE "saveError",
                               stmt |-> "delete", stmtOK |-> del.ok,
                               key |-> s.ID]
                    /\ UNCHANGED <<sess, nextID>>
           ELSE LET b     == SavePrepare(s, nextID, SaveTTL(s, store, heap),
                                      store.Codecs)
                    ins   == Insert(db, b.q, ok)
                    encID == EncodeMulti(s.name, SerializeID(b.s.ID),
                                         store.Codecs)
                IN  /\ s.ID = NoID => nextID <= MaxIDs
                    /\ nextID' = IF s.ID = NoID THEN nextID + 1 ELSE nextID
                    /\ sess' = [sess EXCEPT ![r] = b.s]
                    /\ IF ~b.ok
                       THEN /\ ret' = [op |-> "Save", r |-> r,
                                       cookie |-> NoCookie,
                                       err |-> "saveError", stmt |-> "none",
                                       stmtOK |-> TRUE, key |-> NoID]
                            /\ UNCHANGED <<db, w>>
                       ELSE /\ db' = ins.table
                            /\ ret' = [op |-> "Save", r |-> r,
                                       cookie |-> NoCookie,
                                       err |-> IF ins.ok /\ encID.ok
                                               THEN "nil" ELSE "saveError",
                                       stmt |-> "insert", stmtOK |-> ins.ok,
                                       key |-> b.q.id]
                            /\ w' = IF ins.ok /\ encID.ok
                                    THEN [w EXCEPT ![r] =
                                            NewCookie(s.name, encID.tok, age)]
                                    ELSE w
    /\ UNCHANGED registry
    /\ UNCHANGED <<store, heap, loadQ, saveQ, deleteQ, pc, jar, tables,
                   newRet>>

---------------------------------------------------------------------------
(* The handlers step by step: Bind and Exec of a shared query are two steps,
   between which another request's handler may run. *)

\* CQLStore.New up to loadQ.Bind(s.ID).
NewBind(r, name, c) ==
    /\ pc[r] = "idle"
    /\ LET opts == OptionsFor(r, store)
           pre  == NewLoad(name, c, opts, store.Codecs)
       IN  /\ heap' = [heap EXCEPT ![opts] = heap[store.Options]]
           /\ sess' = [sess EXCEPT ![r] = pre.s]
           /\ IF pre.done
              THEN /\ ret' = [op |-> "New", r |-> r, cookie |-> c,
                              err |-> pre.err, stmt |-> "none",
                              stmtOK |-> TRUE, key |-> NoID]
                   /\ pc' = [pc EXCEPT ![r] = "have"]
                   /\ loadQ' = loadQ
              ELSE /\ ret' = NoRet
                   /\ pc' = [pc EXCEPT ![r] = "scan"]
                   /\ loadQ' = pre.s.ID
    /\ UNCHANGED registry
    /\ UNCHANGED <<store, db, saveQ, deleteQ, nextID, w, jar, tables, newRet>>

\* CQLStore.New from Scan(&encData) to the return.
NewScan(r, ok) ==
    /\ pc[r] = "scan"
    /\ LET scan == Scan(db, loadQ, ok)
           fin  == NewFinish(sess[r], scan, store.Codecs)
       IN  /\ sess' = [sess EXCEPT ![r] = fin.s]
           /\ ret' = [op |-> "New", r |-> r, cookie |-> NoCookie,
                      err |-> fin.err, stmt |-> "select", stmtOK |-> ok,
                      key |-> loadQ]
    /\ pc' = [pc EXCEPT ![r] = "have"]
    /\ UNCHANGED registry
    /\ UNCHANGED <<store, heap, db, loadQ, saveQ, deleteQ, nextID, w, jar,
                   tables, newRet>>

\* CQLStore.Save up to deleteQ.Bind(s.ID) or saveQ.Bind(s.ID, encData, ttl).
SaveBind(r) ==
    /\ pc[r] = "have"
    /\ LET s   == sess[r]
           age == heap[s.Options]
           b   == SavePrepare(s, nextID, SaveTTL(s, store, heap), store.Codecs)
       IN  IF age < 0
           THEN /\ deleteQ' = s.ID
                /\ pc' = [pc EXCEPT ![r] = "delete"]
                /\ ret' = NoRet
                /\ UNCHANGED <<sess, saveQ, nextID>>
           ELSE /\ s.ID = NoID => nextID <= MaxIDs
                /\ nextID' = IF s.ID = NoID THEN nextID + 1 ELSE nextID
                /\ sess' = [sess EXCEPT ![r] = b.s]
                /\ deleteQ' = deleteQ
                /\ IF ~b.ok
                   THEN /\ ret' = [op |-> "Save", r |-> r, cookie |-> NoCookie,
                                   err |-> "saveError", stmt |-> "none",
                                   stmtOK |-> TRUE, key |-> NoID]
                        /\ UNCHANGED <<saveQ, pc>>
                   ELSE /\ saveQ' = b.q
                        /\ pc' = [pc EXCEPT ![r] = "insert"]
                        /\ ret' = NoRet
    /\ UNCHANGED registry
    /\ UNCHANGED <<store, heap, db, loadQ, w, jar, tables, newRet>>

\* CQLStore.Save from Exec() to the return.
SaveExec(r, ok) ==
    /\ pc[r] \in {"delete", "insert"}
    /\ LET s     == sess[r]
           age   == heap[s.Options]
           del   == Delete(db, deleteQ, ok)
           ins   == Insert(db, saveQ, ok)
           encID == EncodeMulti(s.name, SerializeID(s.ID), store.Codecs)
       IN  IF pc[r] = "delete"
           THEN /\ db' = del.table
                /\ w' = IF del.ok
                        THEN [w EXCEPT ![r] = NewCookie(s.name, EmptyValue, age)]
                        ELSE w
                /\ ret' = [op |-> "Save", r |-> r, cookie |-> NoCookie,
                           err |-> IF del.ok THEN "nil" ELSE "saveError",
                           stmt |-> "delete", stmtOK |-> del.ok,
                           key |-> deleteQ]
           ELSE /\ db' = ins.table
                /\ w' = IF ins.ok /\ encID.ok
                        THEN [w EXCEPT ![r] = NewCookie(s.name, encID.tok, age)]
                        ELSE w
                /\ ret' = [op |-> "Save", r |-> r, cookie |-> NoCookie,
                           err |-> IF ins.ok /\ encID.ok
                                   THEN "nil" ELSE "saveError",
                           stmt |-> "insert", stmtOK |-> ins.ok,
                           key |-> saveQ.id]
    /\ pc' = [pc EXCEPT ![r] = "have"]
    /\ UNCHANGED registry
    /\ UNCHANGED <<store, heap, loadQ, saveQ, deleteQ, nextID, sess, jar,
                   tables, newRet>>

---------------------------------------------------------------------------
(* The callers of the store, between New and Save *)

\* session.Values[k] = v, delete(session.Values, k)
SetValues(r, v) ==
    /\ pc[r] = "have"
    /\ sess' = [sess EXCEPT ![r].Values = v]
    /\ ret' = NoRet
    /\ UNCHANGED registry
    /\ UNCHANGED <<store, heap, db, loadQ, saveQ, deleteQ, nextID, pc, w, jar, tables, newRet>>

\* session.Options.MaxAge = m
SetSessionMaxAge(r, m) ==
    /\ pc[r] = "have"
    /\ heap' = [heap EXCEPT ![sess[r].Options] = m]
    /\ ret' = NoRet
    /\ UNCHANGED registry
    /\ UNCHANGED <<store, db, loadQ, saveQ, deleteQ, nextID, pc, sess, w,
                   jar, tables, newRet>>

\* session.Options = &sessions.Options{MaxAge: m}
ReplaceSessionOptions(r, m) ==
    /\ pc[r] = "have"
    /\ sess' = [sess EXCEPT ![r].Options = r]
    /\ heap' = [heap EXCEPT ![r] = m]
    /\ ret' = NoRet
    /\ UNCHANGED registry
    /\ UNCHANGED <<store, db, loadQ, saveQ, deleteQ, nextID, pc, w, jar, tables, newRet>>

\* store.Options.MaxAge = m
SetStoreMaxAge(m) ==
    /\ heap' = [heap EXCEPT ![store.Options] = m]
    /\ ret' = NoRet
    /\ UNCHANGED registry
    /\ UNCHANGED <<store, db, loadQ, saveQ, deleteQ, nextID, pc, sess, w,
                   jar, tables, newRet>>

\* store.Codecs = securecookie.CodecsFromPairs(keypairs...)
SetCodecs(keypairs) ==
    /\ store' = [store EXCEPT !.Codecs = CodecsFromPairs(keypairs)]
    /\ store' # store
    /\ ret' = NoRet
    /\ UNCHANGED registry
    /\ UNCHANGED <<heap, db, loadQ, saveQ, deleteQ, nextID, pc, sess, w,
                   jar, tables, newRet>>

\* What a client holds after a response: Set-Cookie with a negative Max-Age
\* clears the cookie of that name, any other Set-Cookie replaces it.
Received(held, c) ==
    IF c = NoCookie THEN held
    ELSE IF c.MaxAge < 0
         THEN (IF held.name = c.name THEN NoCookie ELSE held)
         ELSE NewCookie(c.name, c.value, 0)

\* The handler returns: its session is dropped and the response is sent,
\* which the client receives or not.
EndRequest(r, delivered) ==
    /\ pc[r] = "have"
    /\ pc' = [pc EXCEPT ![r] = "idle"]
    /\ sess' = [sess EXCEPT ![r] = NoSession]
    /\ heap' = [heap EXCEPT ![r] = DefaultMaxAge]
    /\ jar' = [jar EXCEPT ![r] = IF delivered THEN Received(jar[r], w[r])
                                 ELSE jar[r]]
    /\ w' = [w EXCEPT ![r] = NoCookie]
    /\ registry' = [registry EXCEPT ![r] = NoEntry]
    /\ ret' = NoRet
    /\ UNCHANGED <<store, db, loadQ, saveQ, deleteQ, nextID, tables, newRet>>

\* An expiry that leaves the row readable.
ExpireKeepsRow(id) ==
    /\ id \in DOMAIN db
    /\ db[id].ttl > 0
    /\ ret' = NoRet
    /\ UNCHANGED registry
    /\ UNCHANGED <<store, heap, db, loadQ, saveQ, deleteQ, nextID, pc, sess,
                   w, jar, tables, newRet>>

\* Cassandra drops a row whose time-to-live has elapsed.
Expire(id) ==
    /\ id \in DOMAIN db
    /\ db[id].ttl > 0
    /\ db' = [i \in DOMAIN db \ {id} |-> db[i]]
    /\ ret' = NoRet
    /\ UNCHANGED registry
    /\ UNCHANGED <<store, heap, loadQ, saveQ, deleteQ, nextID, pc, sess, w,
                   jar, tables, newRet>>

---------------------------------------------------------------------------
(* The constructor *)

\* Table names are strings over these characters.
Lower == {"s"}
Upper == {"S"}
Digit == {"1"}
Chars == Lower \cup Upper \cup Digit \cup {"_", "\"", ";", " ", "-"}
TableNames == UNION {[1..n -> Chars] : n \in 0..MaxTableLen}
SessionsTable == <<"s">>

\* The pattern without its anchors: one word character anywhere is enough.
MatchStringUnanchored(table) ==
    \E i \in 1..Len(table) :
        table[i] \in Lower \cup Upper \cup Digit \cup {"_"}

\* regexp.MustCompile("^[a-zA-Z0-9_]+$").MatchString(table)
MatchString(table) ==
    /\ Len(table) >= 1
    /\ \A i \in 1..Len(table) :
          table[i] \in Lower \cup Upper \cup Digit \cup {"_"}

\* Before the first call of the constructor.
NotCalled == [table |-> <<>>, err |-> "none", execs |-> 0]

\* &CQLStore{}
ZeroStore == [Options |-> NilAddr, Codecs |-> <<>>]

\* The store New returns on success.
NewCQLStore(keypairs) ==
    [Options |-> StoreAddr, Codecs |-> CodecsFromPairs(keypairs)]

\* A constructor that creates the table anew, without IF NOT EXISTS.
NewRecreatingTable(table, keypairs, ok) ==
    /\ MatchString(table) /\ ok
    /\ newRet' = [table |-> table, err |-> "nil", execs |-> 1]
    /\ store' = NewCQLStore(keypairs)
    /\ tables' = tables \cup {table}
    /\ heap' = [heap EXCEPT ![StoreAddr] = DefaultMaxAge]
    /\ db' = [i \in {} |-> 0]
    /\ UNCHANGED registry
    /\ UNCHANGED <<loadQ, saveQ, deleteQ, nextID, pc, sess, w, jar, ret>>

\* New(cs, table, keypairs...): ok tells whether CREATE TABLE IF NOT EXISTS
\* succeeds.
New(table, keypairs, ok) ==
    /\ IF ~MatchString(table)
       THEN /\ newRet' = [table |-> table, err |-> "error", execs |-> 0]
            /\ store' = ZeroStore
            /\ UNCHANGED <<tables, heap>>
       ELSE IF ~ok
       THEN /\ newRet' = [table |-> table, err |-> "createError", execs |-> 1]
            /\ store' = ZeroStore
            /\ UNCHANGED <<tables, heap>>
       ELSE /\ newRet' = [table |-> table, err |-> "nil", execs |-> 1]
            /\ store' = NewCQLStore(keypairs)
            /\ tables' = tables \cup {table}
            /\ heap' = [heap EXCEPT ![StoreAddr] = DefaultMaxAge]
    /\ UNCHANGED registry
    /\ UNCHANGED <<db, loadQ, saveQ, deleteQ, nextID, pc, sess, w, jar, ret>>

Init ==
    /\ store \in {ZeroStore} \cup {NewCQLStore(kp) : kp \in KeyPairArgs}
    /\ heap = [a \in Addrs |-> DefaultMaxAge]
    /\ db = [i \in {} |-> 0]
    /\ loadQ = NoID
    /\ saveQ = NoBind
    /\ deleteQ = NoID
    /\ nextID = 1
    /\ pc = [r \in Reqs |-> "idle"]
    /\ sess = [r \in Reqs |-> NoSession]
    /\ w = [r \in Reqs |-> NoCookie]
    /\ jar = [r \in Reqs |-> NoCookie]
    /\ ret = NoRet
    /\ tables \in {{}, {SessionsTable}}
    /\ newRet \in {NotCalled,
                   [table |-> SessionsTable, err |-> "nil", execs |-> 1]}
    /\ registry = [r \in Reqs |-> NoEntry]

\* Requests served one at a time go through one handler slot.
Handler == {1}

Next ==
    \/ \E r \in Handler, c \in RequestCookies, ok \in BOOLEAN :
          CQLStoreNew(r, "A", c, ok)
    \/ \E r \in Handler, ok \in BOOLEAN : CQLStoreSave(r, ok)
    \/ \E r \in Handler, v \in SampleValues : SetValues(r, v)
    \/ \E r \in Handler, m \in MaxAges : SetSessionMaxAge(r, m)
    \/ \E r \in Handler, delivered \in BOOLEAN : EndRequest(r, delivered)
    \/ \E id \in IDs : Expire(id)

\* The constructor has succeeded for the sessions table.
Constructed ==
    /\ tables = {SessionsTable}
    /\ newRet = [table |-> SessionsTable, err |-> "nil", execs |-> 1]

\* Requests served one at a time by a store built without keys or with two.
InitSerial ==
    /\ Init
    /\ Constructed
    /\ store \in {NewCQLStore(<<>>), NewCQLStore(<<"K2", "", "K1">>)}

Spec == InitSerial /\ [][Next]_vars

\* Requests served concurrently by a store built with one key.
InitConc ==
    /\ Init
    /\ Constructed
    /\ store = NewCQLStore(<<"K1">>)

ConcValues ==
    { [k \in {"a"} |-> 1], [k \in {"a", "b"} |-> IF k = "a" THEN 1 ELSE 2] }

NextConc ==
    \/ \E r \in Reqs : \E c \in {NoCookie, jar[r]} : NewBind(r, "A", c)
    \/ \E r \in Reqs : NewScan(r, TRUE)
    \/ \E r \in Reqs : SaveBind(r)
    \/ \E r \in Reqs : SaveExec(r, TRUE)
    \/ \E r \in Reqs, v \in ConcValues : SetValues(r, v)
    \/ \E r \in Reqs : EndRequest(r, TRUE)

SpecConc == InitConc /\ [][NextConc]_vars

\* Requests served one at a time while the application rotates the keys.
InitRotate ==
    /\ Init
    /\ Constructed
    /\ store = NewCQLStore(<<"K1">>)

NextRotate ==
    \/ \E r \in Handler, c \in RequestCookies, ok \in BOOLEAN :
          CQLStoreNew(r, "A", c, ok)
    \/ \E r \in Handler, ok \in BOOLEAN : CQLStoreSave(r, ok)
    \/ \E r \in Handler, v \in ConcValues : SetValues(r, v)
    \/ \E kp \in KeyPairArgs : SetCodecs(kp)
    \/ \E r \in Handler, delivered \in BOOLEAN : EndRequest(r, delivered)
    \/ \E id \in IDs : Expire(id)

SpecRotate == InitRotate /\ [][NextRotate]_vars

\* Requests whose handlers change the options of their session or of the
\* store.
NextOptions ==
    \/ \E r \in Reqs : \E c \in {NoCookie, jar[r]} :
          CQLStoreNew(r, "A", c, TRUE)
    \/ \E r \in Reqs : CQLStoreSave(r, TRUE)
    \/ \E r \in Reqs, m \in MaxAges : SetSessionMaxAge(r, m)
    \/ \E r \in Reqs, m \in MaxAges : ReplaceSessionOptions(r, m)
    \/ \E m \in MaxAges : SetStoreMaxAge(m)
    \/ \E r \in Reqs : EndRequest(r, TRUE)

SpecOptions == InitRotate /\ [][NextOptions]_vars

\* Requests served one at a time for sessions of two names.
NextNames ==
    \/ \E r \in Handler, name \in Names, c \in RequestCookies,
          ok \in BOOLEAN : CQLStoreNew(r, name, c, ok)
    \/ \E r \in Handler, ok \in BOOLEAN : CQLStoreSave(r, ok)
    \/ \E r \in Handler, v \in ConcValues : SetValues(r, v)
    \/ \E r \in Handler, delivered \in BOOLEAN : EndRequest(r, delivered)

SpecNames == InitRotate /\ [][NextNames]_vars

\* The application builds its store again for the sessions table, with the
\* same keys, between requests; it serves requests with the store it was
\* returned without error, and lowers the default MaxAge of a store.
ReopenMaxAge == 1800

NextReopen ==
    \/ \E ok \in BOOLEAN :
          /\ \A r \in Reqs : pc[r] = "idle"
          /\ New(SessionsTable, <<"K1">>, ok)
    \/ store # ZeroStore /\ heap[store.Options] # ReopenMaxAge
          /\ SetStoreMaxAge(ReopenMaxAge)
    \/ \E r \in Handler, c \in RequestCookies, ok \in BOOLEAN :
          store # ZeroStore /\ CQLStoreNew(r, "A", c, ok)
    \/ \E r \in Handler, ok \in BOOLEAN : CQLStoreSave(r, ok)
    \/ \E r \in Handler, v \in ConcValues : SetValues(r, v)
    \/ \E r \in Handler, delivered \in BOOLEAN : EndRequest(r, delivered)

SpecReopen == InitRotate /\ [][NextReopen]_vars

\* Requests served one at a time by handlers that call Get, any number of
\* times.
NextGet ==
    \/ \E r \in Handler, c \in RequestCookies, ok \in BOOLEAN :
          Get(r, "A", c, ok)
    \/ \E r \in Handler, ok \in BOOLEAN : CQLStoreSave(r, ok)
    \/ \E r \in Handler, v \in ConcValues : SetValues(r, v)
    \/ \E r \in Handler, delivered \in BOOLEAN : EndRequest(r, delivered)
    \/ \E id \in IDs : Expire(id)

SpecGet == InitRotate /\ [][NextGet]_vars

\* The constructor, called with any table name; the keyspace accepts the
\* schema of the sessions table only.
InitCreate ==
    /\ Init
    /\ store = ZeroStore
    /\ tables = {}
    /\ newRet = NotCalled

NextCreate ==
    \E table \in TableNames, kp \in KeyPairArgs, ok \in BOOLEAN :
        /\ (MatchString(table) /\ ok) => table = SessionsTable
        /\ New(table, kp, ok)

SpecCreate == InitCreate /\ [][NextCreate]_vars

---------------------------------------------------------------------------
(* The claims *)

\* The value verifies under one of the keys, for this name.
Authentic(tok, name, codecs) ==
    \E i \in DOMAIN codecs : tok.codec = codecs[i] /\ tok.ns = name

\* The request of the last call carried a cookie of the session's name.
CarriedCookie ==
    /\ ret.op = "New"
    /\ ret.cookie # NoCookie
    /\ ret.cookie.name = sess[ret.r].name

FullValues == [k \in {"a", "b"} |-> IF k = "a" THEN 1 ELSE 2]

\* C1: when requests are served concurrently, every New that fetches a record
\* fetches the record keyed by the identifier decoded from its own cookie.
C1_NewFetchesItsOwnRecord ==
    (ret.op = "New" /\ ret.stmt = "select") => ret.key = sess[ret.r].ID

\* C2: assigning session.Options.MaxAge never changes store.Options.MaxAge.
C2_SessionOptionsAreACopy ==
    [][\A r \in Reqs, m \in MaxAges :
          SetSessionMaxAge(r, m) =>
              heap'[store.Options] = heap[store.Options]]_vars

\* C3: after a successful Save of a session whose MaxAge is positive, New on
\* a request that carries the cookie Save wrote returns no error, is-new
\* false, the same identifier and the same value mapping.
C3_SaveLoadRoundTrip ==
    (/\ ret.op = "Save"
     /\ ret.err = "nil"
     /\ heap[sess[ret.r].Options] > 0)
    => LET s   == sess[ret.r]
           c   == NewCookie(w[ret.r].name, w[ret.r].value, 0)
           pre == NewLoad(s.name, c, store.Options, store.Codecs)
           fin == NewFinish(pre.s, Scan(db, pre.s.ID, TRUE), store.Codecs)
       IN  /\ ~pre.done
           /\ fin.err = "nil"
           /\ ~fin.s.IsNew
           /\ fin.s.ID = s.ID
           /\ fin.s.Values = s.Values

C3_Witness ==
    /\ ret.op = "Save"
    /\ ret.err = "nil"
    /\ heap[sess[ret.r].Options] > 0
    /\ sess[ret.r].Values = FullValues

\* C4: Save on a session that has an identifier and a negative MaxAge takes
\* the deletion path and, when the delete statement is executed, returns
\* success, leaves no record under the identifier and sets a cookie of the
\* session's name with an empty value and a negative Max-Age.
C4_NegativeMaxAgeDeletes ==
    (/\ ret.op = "Save"
     /\ sess[ret.r].ID # NoID
     /\ heap[sess[ret.r].Options] < 0)
    => /\ ret.stmt = "delete"
       /\ ret.key = sess[ret.r].ID
       /\ ret.stmtOK =>
            /\ ret.err = "nil"
            /\ sess[ret.r].ID \notin DOMAIN db
            /\ w[ret.r].name = sess[ret.r].name
            /\ w[ret.r].value = EmptyValue
            /\ w[ret.r].MaxAge < 0

C4_Witness ==
    /\ ret.op = "Save"
    /\ ret.stmt = "delete"
    /\ ret.stmtOK
    /\ sess[ret.r].ID # NoID
    /\ ~sess[ret.r].IsNew
    /\ w[ret.r].value = EmptyValue

\* C5: New on a request whose cookie of the session's name does not verify
\* under any of the store's keys returns a new session without values and a
\* loadError, and reads no record.
C5_ForgedCookie ==
    (CarriedCookie
     /\ ~Authentic(ret.cookie.value, sess[ret.r].name, store.Codecs))
    => /\ sess[ret.r].IsNew
       /\ sess[ret.r].Values = EmptyValues
       /\ ret.err = "loadError"
       /\ ret.stmt = "none"

C5_Witness ==
    /\ CarriedCookie
    /\ ret.cookie.value.codec # NoCodec
    /\ store.Codecs # <<>>
    /\ ~Authentic(ret.cookie.value, sess[ret.r].name, store.Codecs)
    /\ DeserializeID(ret.cookie.value.body) \in DOMAIN db

\* C6: New on a request whose cookie verifies, while the fetch fails, finds no
\* record, or finds a payload that does not verify, returns a session that is
\* new and without values, and a loadError.
C6_MissingOrUndecodable ==
    (CarriedCookie
     /\ Authentic(ret.cookie.value, sess[ret.r].name, store.Codecs))
    => LET id == DeserializeID(ret.cookie.value.body)
       IN  /\ ret.stmt = "select"
           /\ (\/ ~ret.stmtOK
               \/ id \notin DOMAIN db
               \/ ~Authentic(db[id].data, sess[ret.r].name, store.Codecs))
              => /\ sess[ret.r] # NoSession
                 /\ sess[ret.r].IsNew
                 /\ sess[ret.r].Values = EmptyValues
                 /\ ret.err = "loadError"

C6_Witness ==
    /\ CarriedCookie
    /\ Authentic(ret.cookie.value, sess[ret.r].name, store.Codecs)
    /\ ret.stmtOK
    /\ DeserializeID(ret.cookie.value.body) \in DOMAIN db
    /\ ~Authentic(db[DeserializeID(ret.cookie.value.body)].data,
                  sess[ret.r].name, store.Codecs)
    /\ ret.err = "loadError"

\* C7: New on a request without a cookie of the session's name returns a new
\* session without values and without identifier, returns no error and reads
\* no record.
C7_NoCookie ==
    (ret.op = "New"
     /\ (ret.cookie = NoCookie \/ ret.cookie.name # sess[ret.r].name))
    => /\ sess[ret.r].IsNew
       /\ sess[ret.r].Values = EmptyValues
       /\ sess[ret.r].ID = NoID
       /\ ret.err = "nil"
       /\ ret.stmt = "none"

C7_Witness ==
    /\ ret.op = "New"
    /\ ret.cookie # NoCookie
    /\ ret.cookie.name # sess[ret.r].name
    /\ Authentic(ret.cookie.value, sess[ret.r].name, store.Codecs)
    /\ DeserializeID(ret.cookie.value.body) \in DOMAIN db

\* The name is empty or holds a character that is no letter, digit or
\* underscore.
InvalidTableName(table) ==
    \/ table = <<>>
    \/ \E i \in DOMAIN table : table[i] \in {"\"", ";", " ", "-"}

C9_TTLIsSessionMaxAge ==
    (ret.op = "Save" /\ ret.stmt = "insert" /\ ret.stmtOK)
    => db[ret.key].ttl = heap[sess[ret.r].Options]

\* C10: a Save that succeeds on a session whose MaxAge is 0 has taken the
\* deletion path: no record is left under the identifier and the cookie is
\* empty.
C10_ZeroMaxAgeDeletes ==
    (ret.op = "Save" /\ ret.err = "nil" /\ heap[sess[ret.r].Options] = 0)
    => /\ ret.stmt = "delete"
       /\ sess[ret.r].ID \notin DOMAIN db
       /\ w[ret.r].value = EmptyValue

C12_SessionsKeepTheirOptions ==
    [][/\ \A m \in MaxAges :
            SetStoreMaxAge(m)
            => \A r \in Reqs :
                  pc[r] = "have"
                  => heap'[sess[r].Options] = heap[sess[r].Options]
       /\ \A r \in Reqs, m \in MaxAges :
            SetSessionMaxAge(r, m)
            => \A q \in Reqs \ {r} :
                  pc[q] = "have"
                  => heap'[sess[q].Options] = heap[sess[q].Options]]_vars

\* C13: once the record of an identifier has expired, New on a request that
\* carries a cookie a client holds for that identifier returns what it
\* returns when the table holds no record at all: a new session without
\* values and a loadError.
C13_ExpiredEqualsAbsent ==
    [][\A id \in IDs :
          Expire(id)
          => \A q \in Reqs :
                LET c    == jar[q]
                    pre  == NewLoad(c.name, c, store.Options, store.Codecs)
                    fin  == NewFinish(pre.s, Scan(db', pre.s.ID, TRUE),
                                      store.Codecs)
                    none == NewFinish(pre.s, Scan(EmptyValues, pre.s.ID, TRUE),
                                      store.Codecs)
                IN  (c # NoCookie /\ ~pre.done /\ pre.s.ID = id)
                    => /\ fin.s.IsNew
                       /\ fin.s.Values = EmptyValues
                       /\ fin.err = "loadError"
                       /\ fin = none]_vars

\* No Save of this specification deletes, so a record that a cookie names and
\* the table lacks has expired.
C13_Witness ==
    /\ CarriedCookie
    /\ Authentic(ret.cookie.value, sess[ret.r].name, store.Codecs)
    /\ ret.stmtOK
    /\ ret.key = DeserializeID(ret.cookie.value.body)
    /\ ret.key \notin DOMAIN db
    /\ ret.err = "loadError"
    /\ sess[ret.r].IsNew
    /\ \A a \in Addrs : heap[a] > 0

\* The codec of the key list [K1], and the codecs of the key list [K2, K1].
OldCodec == CodecsFromPairs(<<"K1">>)[1]
Rotated == CodecsFromPairs(<<"K2", "", "K1">>)

\* The identifier a cookie value carries.
CookieID(c) == DeserializeID(c.value.body)

\* The last call was New, with keys [K2, K1], on a request whose cookie was
\* issued under K1 for a record the table holds, and no fetch failed.
LoadedAfterRotation ==
    /\ CarriedCookie
    /\ store.Codecs = Rotated
    /\ ret.cookie.value.codec = OldCodec
    /\ ret.cookie.value.ns = sess[ret.r].name
    /\ ret.stmtOK
    /\ CookieID(ret.cookie) \in DOMAIN db
    /\ db[CookieID(ret.cookie)].data.ns = sess[ret.r].name
    /\ db[CookieID(ret.cookie)].data.codec \in Range(Rotated)

\* C14: a store with keys [K2, K1] loads a session whose cookie was issued
\* under K1, returning no error, is-new false and the values of the record;
\* every Save encodes the record and the cookie under the first key pair.
C14_KeyRotation ==
    /\ LoadedAfterRotation
       => /\ ret.err = "nil"
          /\ ~sess[ret.r].IsNew
          /\ sess[ret.r].ID = CookieID(ret.cookie)
          /\ Serialize(sess[ret.r].Values).body
                = db[CookieID(ret.cookie)].data.body
    /\ (ret.op = "Save" /\ ret.err = "nil" /\ ret.stmt = "insert")
       => /\ db[ret.key].data.codec = store.Codecs[1]
          /\ w[ret.r].value.codec = store.Codecs[1]

C14_Witness ==
    /\ LoadedAfterRotation
    /\ db[CookieID(ret.cookie)].data.codec = OldCodec
    /\ sess[ret.r].Values = FullValues

\* C15: New for a session name, on a request whose cookie of that name
\* carries a value Save issued for another name, returns a new session
\* without values and a loadError, and reads no record.
C15_NameBinding ==
    (/\ CarriedCookie
     /\ ret.cookie.value.ns \in Names \ {sess[ret.r].name})
    => /\ sess[ret.r].IsNew
       /\ sess[ret.r].Values = EmptyValues
       /\ ret.err = "loadError"
       /\ ret.stmt = "none"

C15_Witness ==
    /\ CarriedCookie
    /\ sess[ret.r].name = "B"
    /\ ret.cookie.value.ns = "A"
    /\ ret.cookie.value.codec \in Range(store.Codecs)
    /\ CookieID(ret.cookie) \in DOMAIN db
    /\ db[CookieID(ret.cookie)].data.ns = "A"

\* C16: constructing the store again for the sessions table changes no
\* record; when the schema statement succeeds it returns a store, through
\* which New loads every session a client holds a cookie for exactly as
\* before, and when the statement fails it returns a createError.
C16_ConstructionIsIdempotent ==
    [][\A ok \in BOOLEAN :
          New(SessionsTable, <<"K1">>, ok)
          => /\ db' = db
             /\ ok => /\ newRet'.err = "nil"
                      /\ store' = NewCQLStore(<<"K1">>)
                      /\ \A q \in Reqs :
                            LET c   == jar[q]
                                pre == NewLoad(c.name, c, store'.Options,
                                               store'.Codecs)
                                fin == NewFinish(pre.s,
                                                 Scan(db', pre.s.ID, TRUE),
                                                 store'.Codecs)
                            IN  (c # NoCookie /\ CookieID(c) \in DOMAIN db)
                                => /\ ~pre.done
                                   /\ fin.err = "nil"
                                   /\ ~fin.s.IsNew
                                   /\ Serialize(fin.s.Values).body
                                        = db[CookieID(c)].data.body
             /\ ~ok => newRet'.err = "createError"]_vars

\* A record written with the lowered MaxAge is loaded through a store that
\* has the default MaxAge again: the store was built after the record.
C16_Witness ==
    /\ ret.op = "New"
    /\ ret.err = "nil"
    /\ ~sess[ret.r].IsNew
    /\ sess[ret.r].Values = FullValues
    /\ db[ret.key].ttl = ReopenMaxAge
    /\ heap[store.Options] = DefaultMaxAge
    /\ newRet.err = "nil"

\* C17: a Get on a request that already got its session returns that session
\* as it is now, with the error of the first Get, and reads no record; a Get
\* on a request that has none does what New does.
C17_GetIsMemoized ==
    [][\A r \in Reqs, c \in RequestCookies, ok \in BOOLEAN :
          Get(r, "A", c, ok)
          => IF registry[r] # NoEntry
             THEN /\ sess' = sess
                  /\ heap' = heap
                  /\ db' = db
                  /\ ret'.op = "Get"
                  /\ ret'.stmt = "none"
                  /\ ret'.err = registry[r]
             ELSE /\ pc[r] = "idle"
                  /\ NewCall(r, "A", c, ok)]_vars

\* The second Get returned a loaded session with the values the handler set
\* after the first Get, which are not the values of its record.
C17_Witness ==
    /\ ret.op = "Get"
    /\ ~sess[ret.r].IsNew
    /\ sess[ret.r].Values = FullValues
    /\ sess[ret.r].ID \in DOMAIN db
    /\ db[sess[ret.r].ID].data.body # Serialize(FullValues).body

\* C18: when requests are served concurrently, every Save that succeeds in
\* writing has written under the identifier of its own session, and the
\* cookie it set names a record the table holds.
C18_SaveWritesItsOwnRecord ==
    (ret.op = "Save" /\ ret.err = "nil" /\ ret.stmt = "insert")
    => /\ ret.key = sess[ret.r].ID
       /\ CookieID(w[ret.r]) \in DOMAIN db

\* C19: a session New returns together with a loadError has no identifier,
\* and a Save that fails on a session without identifier leaves it without
\* identifier.
C19_NoIdentifierBeforeSaveOrLoad ==
    [][/\ (ret'.op = "New" /\ ret'.err = "loadError")
          => sess'[ret'.r].ID = NoID
       /\ (ret'.op = "Save" /\ ret'.err = "saveError"
             /\ sess[ret'.r].ID = NoID)
          => sess'[ret'.r].ID = NoID]_vars

\* C20: no step changes the identifier of a session that has one; every
\* statement of a Save addresses the identifier of its session, the cookie
\* a Save sets decodes to it, and an identifier is minted only by a Save of
\* a session that has none.
C20_IdentifierIsStable ==
    [][/\ \A r \in Reqs :
            (sess[r].ID # NoID /\ pc'[r] # "idle")
            => sess'[r].ID = sess[r].ID
       /\ (ret'.op = "Save" /\ ret'.stmt \in {"insert", "delete"})
          => ret'.key = sess'[ret'.r].ID
       /\ (ret'.op = "Save" /\ ret'.err = "nil" /\ ret'.stmt = "insert")
          => CookieID(w'[ret'.r]) = sess'[ret'.r].ID
       /\ nextID' # nextID
          => /\ ret'.op = "Save"
             /\ sess[ret'.r].ID = NoID
             /\ sess'[ret'.r].ID = nextID]_vars

\* A loaded session saved again under its identifier, after a later
\* identifier was minted for another session.
C20_Witness ==
    /\ ret.op = "Save"
    /\ ret.err = "nil"
    /\ ret.stmt = "insert"
    /\ ~sess[ret.r].IsNew
    /\ ret.key = sess[ret.r].ID
    /\ sess[ret.r].ID + 1 < nextID

\* C21: a Save that succeeds on a session whose identifier has a record
\* leaves one record under that identifier, from which New on the cookie
\* Save wrote loads exactly the values the session held, and leaves every
\* other record as it was.
C21_SaveReplaces ==
    [][(/\ ret'.op = "Save"
        /\ ret'.err = "nil"
        /\ ret'.stmt = "insert"
        /\ ret'.key \in DOMAIN db)
       => LET r   == ret'.r
              s   == sess'[r]
              c   == NewCookie(w'[r].name, w'[r].value, 0)
              pre == NewLoad(s.name, c, store'.Options, store'.Codecs)
              fin == NewFinish(pre.s, Scan(db', pre.s.ID, TRUE),
                               store'.Codecs)
          IN  /\ ~pre.done
              /\ pre.s.ID = ret'.key
              /\ fin.err = "nil"
              /\ fin.s.Values = s.Values
              /\ DOMAIN db' = DOMAIN db
              /\ \A i \in DOMAIN db \ {ret'.key} : db'[i] = db[i]]_vars

\* A loaded session saved with the one entry it has left.
C21_Witness ==
    /\ ret.op = "Save"
    /\ ret.err = "nil"
    /\ ret.stmt = "insert"
    /\ ~sess[ret.r].IsNew
    /\ DOMAIN sess[ret.r].Values = {"a"}
    /\ db[ret.key].data.body = Serialize(sess[ret.r].Values).body

\* C22: a New or a Get, whether it returns an error or not, leaves the table
\* and the cookies set on every response as they were.
C22_LoadingIsReadOnly ==
    [][ret'.op \in {"New", "Get"}
       => /\ db' = db
          /\ w' = w
          /\ jar' = jar]_vars

\* A New that loaded a session from a record that can expire, on a request
\* whose response carries no cookie.
C22_Witness ==
    /\ ret.op = "New"
    /\ ret.stmt = "select"
    /\ ret.stmtOK
    /\ ret.err = "nil"
    /\ ~sess[ret.r].IsNew
    /\ ret.key \in DOMAIN db
    /\ db[ret.key].ttl > 0
    /\ w[ret.r] = NoCookie

===========================================================================
